---- MODULE Spec2Model ----
(***************************************************************************)
(* Model of src/libstd/unstable/sync.rs: the atomically reference counted  *)
(* box UnsafeAtomicRcBox (new/new2, clone, drop, unwrap, try_unwrap), the  *)
(* LittleLock and the Exclusive cell (with, unwrap) built on it.           *)
(*                                                                         *)
(* One allocation is modelled.  Every handle is operated by one task at a  *)
(* time; the steps of calls on different handles interleave freely, one    *)
(* step per access to the shared allocation (atomic operation, channel     *)
(* operation, lock operation or plain access to the payload).              *)
(***************************************************************************)
EXTENDS Integers, FiniteSets, Sequences, TLC

\* ---- bounds -------------------------------------------------------------
MaxHandles == 2    \* handles ever created for the allocation
MaxWith == 2       \* completed increments of the payload through `with`
MaxInit == 1       \* largest initial payload value

Handles == 1..MaxHandles
NoHandle == 0

VARIABLES
    pc,          \* per handle: position of the task operating the handle
    res,         \* per handle: result of the last call made on it
    ret,         \* per handle: payload value handed to the caller, or -1
    kill,        \* per handle: a kill request is pending for the task inside
                 \* unwrap or drop on the handle (cleared when the call is over)
    tc,          \* per handle: `count` local of try_unwrap
    wl,          \* per handle: value read by the closure of `with`
    peer,        \* per handle: installer of the pair `drop` took from the slot
    count,       \* AtomicRcBoxData.count
    unwrapper,   \* AtomicRcBoxData.unwrapper: NoHandle (empty) or the installer
    ready,       \* per installer: state of the oneshot () channel (c1 -> p1)
    ack,         \* per installer: state of the oneshot bool channel (c2 -> p2)
    data,        \* AtomicRcBoxData.data: "Some" or "None"
    val,         \* ExData.data, the user payload (a counter)
    failed,      \* ExData.failed
    lock,        \* ExData.lock: NoHandle (free) or the holder
    box,         \* the heap box: "alloc" or "freed"
    destroyedBy, \* handles whose drop glue ran the payload's destructor
    fault,       \* first assertion failure or memory error, or "none"
    val0,        \* history: the payload value given to new/new2
    alone,       \* history, per handle: no other handle existed when unwrap or
                 \* try_unwrap was called on it
    cell,        \* per handle: the Cell c2_and_data of unwrap: "none" (not
                 \* made), "full" or "empty"
    masked,      \* per handle: the task that called unwrap on it was already
                 \* unkillable (cleared when the call is over)
    failing,     \* per handle: the task that called unwrap on it was already
                 \* failing, e.g. the call is made by a destructor run by
                 \* unwinding (cleared when the call is over)
    incs,        \* history: closures of `with` that completed their increment
    everAborted  \* history: some closure of `with` aborted abnormally

vars == <<pc, res, ret, kill, tc, wl, peer, count, unwrapper, ready, ack, data,
          val, failed, lock, box, destroyedBy, fault, val0, alone, masked, failing,
          cell, incs, everAborted>>

handleVars == <<pc, res, ret, kill, tc, wl, peer, masked, cell>>
arcVars == <<count, unwrapper, ready, ack, data, box, destroyedBy>>
exVars == <<val, failed, lock, incs, everAborted>>

\* ---- helpers ------------------------------------------------------------
Min(S) == CHOOSE x \in S : \A y \in S : x <= y

\* The first failure is kept: `what` is recorded when `bad` holds and no
\* failure was recorded before.
Flt(f, bad, what) == IF f = "none" /\ bad THEN what ELSE f

\* Any access to the box after it was freed is a use after free.
Deref(f) == Flt(f, box = "freed", "use_after_free")

\* Handles that have not yet given up their reference count.
Counted == {h \in Handles : pc[h] \in {"idle", "uw_fill", "uw_dec", "dr_dec",
                                       "tu_check", "tu_take", "w_lock", "w_check",
                                       "w_set", "w_read", "w_write", "w_clear",
                                       "w_unlock"}}

\* Handle h is the only handle: the others never existed or are retired.
Only(h) == \A g \in Handles \ {h} : pc[g] \in {"unused", "done"}

\* ---- construction -------------------------------------------------------
\* UnsafeAtomicRcBox::new (n = 1) and new2 (n = 2), wrapped by exclusive():
\* failed = false, lock created, payload v.
NewBox(n, v) ==
    /\ pc = [h \in Handles |-> IF h <= n THEN "idle" ELSE "unused"]
    /\ res = [h \in Handles |-> "none"]
    /\ ret = [h \in Handles |-> -1]
    /\ kill = [h \in Handles |-> FALSE]
    /\ tc = [h \in Handles |-> 0]
    /\ wl = [h \in Handles |-> 0]
    /\ peer = [h \in Handles |-> NoHandle]
    /\ count = n
    /\ unwrapper = NoHandle
    /\ ready = [h \in Handles |-> "none"]
    /\ ack = [h \in Handles |-> "none"]
    /\ data = "Some"
    /\ val = v
    /\ failed = FALSE
    /\ lock = NoHandle
    /\ box = "alloc"
    /\ destroyedBy = {}
    /\ fault = "none"
    /\ val0 = v
    /\ alone = [h \in Handles |-> FALSE]
    /\ masked = [h \in Handles |-> FALSE]
    /\ failing = [h \in Handles |-> FALSE]
    /\ cell = [h \in Handles |-> "none"]
    /\ incs = 0
    /\ everAborted = FALSE

Init == \E n \in {1, 2}, v \in 0..MaxInit : NewBox(n, v)

\* ---- clone --------------------------------------------------------------
\* Mutant of Clone: the new handle is made without the increment.
CloneNoIncrement(h) ==
    /\ pc[h] = "idle"
    /\ \E u \in Handles : pc[u] = "unused"
    /\ LET g == Min({u \in Handles : pc[u] = "unused"}) IN
       /\ pc' = [pc EXCEPT ![g] = "idle"]
       /\ res' = [res EXCEPT ![h] = "none"]
    /\ fault' = Flt(Deref(fault), count = 0, "assert_count")
    /\ UNCHANGED <<ret, kill, tc, wl, peer, count, unwrapper, ready, ack, data, box,
                   destroyedBy, val0, cell, alone, masked, failing>>
    /\ UNCHANGED exVars

\* Clone for UnsafeAtomicRcBox: fetch_add(1), assert old_count >= 1.
Clone(h) ==
    /\ pc[h] = "idle"
    /\ \E u \in Handles : pc[u] = "unused"
    /\ LET g == Min({u \in Handles : pc[u] = "unused"}) IN
       /\ pc' = [pc EXCEPT ![g] = "idle"]
       /\ res' = [res EXCEPT ![h] = "none"]
    /\ count' = count + 1
    /\ fault' = Flt(Deref(fault), count = 0, "assert_count")
    /\ UNCHANGED <<ret, kill, tc, wl, peer, unwrapper, ready, ack, data, box,
                   destroyedBy, val0, cell, alone, masked, failing>>
    /\ UNCHANGED exVars

\* ---- the payload leaves the box -----------------------------------------
\* data.data.take_unwrap() followed by the end of the owning scope, which
\* frees the box (with the payload gone and the lock moved out with it).
TakePayload(h, how) ==
    /\ data' = "None"
    /\ box' = "freed"
    /\ fault' = Flt(Deref(fault), data = "None", "take_none")
    /\ IF data = "Some"
       THEN /\ ret' = [ret EXCEPT ![h] = val]
            /\ res' = [res EXCEPT ![h] = how]
       ELSE /\ ret' = ret
            /\ res' = [res EXCEPT ![h] = "failed"]
    /\ pc' = [pc EXCEPT ![h] = "done"]
    /\ kill' = [kill EXCEPT ![h] = FALSE]

\* ---- unwrap -------------------------------------------------------------
\* Mutant of StartUnwrap: unwrap looks at the failed flag first and fails
\* with Poisoned, the unwinding dropping the handle.
StartUnwrapChecksFailed(h) ==
    /\ pc[h] = "idle"
    /\ pc' = [pc EXCEPT ![h] = IF failed THEN "dr_dec" ELSE "uw_fill"]
    /\ res' = [res EXCEPT ![h] = IF failed THEN "poisoned" ELSE "none"]
    /\ alone' = [alone EXCEPT ![h] = Only(h)]
    /\ \E m \in BOOLEAN : masked' = [masked EXCEPT ![h] = m /\ ~failed]
    /\ \E f \in BOOLEAN : failing' = [failing EXCEPT ![h] = f /\ ~failed]
    /\ UNCHANGED <<ret, kill, tc, wl, peer, fault, val0, cell>>
    /\ UNCHANGED arcVars
    /\ UNCHANGED exVars

\* The call is made: the handle is moved into unwrap (sync.rs:91-98).  The
\* calling task may already be unkillable (sync.rs:89-90) and may already be
\* failing, which the finally block will read (sync.rs:133).
StartUnwrap(h) ==
    /\ pc[h] = "idle"
    /\ pc' = [pc EXCEPT ![h] = "uw_fill"]
    /\ res' = [res EXCEPT ![h] = "none"]
    /\ alone' = [alone EXCEPT ![h] = Only(h)]
    /\ \E m \in BOOLEAN : masked' = [masked EXCEPT ![h] = m]
    /\ \E f \in BOOLEAN : failing' = [failing EXCEPT ![h] = f]
    /\ UNCHANGED <<ret, kill, tc, wl, peer, fault, val0, cell>>
    /\ UNCHANGED arcVars
    /\ UNCHANGED exVars

\* Mutant of UnwrapFill: a rejected unwrap forgets its handle, so that the
\* unwinding runs no destructor on it.
UnwrapFillRejectForgets(h) ==
    /\ pc[h] = "uw_fill"
    /\ IF unwrapper = NoHandle
       THEN /\ unwrapper' = h
            /\ ready' = [ready EXCEPT ![h] = "none"]
            /\ ack' = [ack EXCEPT ![h] = "none"]
            /\ pc' = [pc EXCEPT ![h] = "uw_dec"]
            /\ res' = res
       ELSE /\ UNCHANGED <<unwrapper, ready, ack>>
            /\ pc' = [pc EXCEPT ![h] = "done"]
            /\ res' = [res EXCEPT ![h] = "conflict"]
    /\ masked' = [masked EXCEPT ![h] = @ /\ unwrapper = NoHandle]
    /\ failing' = [failing EXCEPT ![h] = @ /\ unwrapper = NoHandle]
    /\ fault' = Deref(fault)
    /\ UNCHANGED <<ret, kill, tc, wl, peer, count, data, box, destroyedBy, val0, cell, alone>>
    /\ UNCHANGED exVars

\* Mutant of UnwrapFill: a pair left in the slot by a cancelled unwrap is
\* taken for no pair and replaced.
UnwrapFillReplacesDead(h) ==
    /\ pc[h] = "uw_fill"
    /\ IF unwrapper = NoHandle \/ res[unwrapper] = "killed"
       THEN /\ unwrapper' = h
            /\ ready' = [ready EXCEPT ![h] = "none"]
            /\ ack' = [ack EXCEPT ![h] = "none"]
            /\ pc' = [pc EXCEPT ![h] = "uw_dec"]
            /\ res' = res
            /\ masked' = masked
            /\ failing' = failing
       ELSE /\ UNCHANGED <<unwrapper, ready, ack>>
            /\ pc' = [pc EXCEPT ![h] = "dr_dec"]
            /\ res' = [res EXCEPT ![h] = "conflict"]
            /\ masked' = [masked EXCEPT ![h] = FALSE]
            /\ failing' = [failing EXCEPT ![h] = FALSE]
    /\ fault' = Deref(fault)
    /\ UNCHANGED <<ret, kill, tc, wl, peer, count, data, box, destroyedBy, val0, cell, alone>>
    /\ UNCHANGED exVars

\* data.unwrapper.fill(~(c1,p2)): installs the pair if the slot is empty;
\* otherwise the pair comes back, the call fails and the unwinding drops the
\* handle, whose pointer is still set (sync.rs:103-105, 145-150).
UnwrapFill(h) ==
    /\ pc[h] = "uw_fill"
    /\ IF unwrapper = NoHandle
       THEN /\ unwrapper' = h
            /\ ready' = [ready EXCEPT ![h] = "none"]
            /\ ack' = [ack EXCEPT ![h] = "none"]
            /\ pc' = [pc EXCEPT ![h] = "uw_dec"]
            /\ res' = res
       ELSE /\ UNCHANGED <<unwrapper, ready, ack>>
            /\ pc' = [pc EXCEPT ![h] = "dr_dec"]
            /\ res' = [res EXCEPT ![h] = "conflict"]
    /\ masked' = [masked EXCEPT ![h] = @ /\ unwrapper = NoHandle]
    /\ failing' = [failing EXCEPT ![h] = @ /\ unwrapper = NoHandle]
    /\ fault' = Deref(fault)
    /\ UNCHANGED <<ret, kill, tc, wl, peer, count, data, box, destroyedBy, val0, cell, alone>>
    /\ UNCHANGED exVars

\* Mutant of UnwrapDec: the branch tests the new count instead of the old one.
UnwrapDecTestsNew(h) ==
    /\ pc[h] = "uw_dec"
    /\ count' = count - 1
    /\ fault' = Flt(Deref(fault), count = 0, "assert_count")
    /\ pc' = [pc EXCEPT ![h] = IF count - 1 = 1 THEN "uw_now" ELSE "uw_wait"]
    /\ cell' = [cell EXCEPT ![h] = IF count - 1 = 1 THEN @ ELSE "full"]
    /\ UNCHANGED <<res, ret, kill, tc, wl, peer, unwrapper, ready, ack, data,
                   box, destroyedBy, val0, alone, masked, failing>>
    /\ UNCHANGED exVars

\* count.fetch_sub(1), assert old_count >= 1, branch on old_count == 1
\* (sync.rs:107-109, 116).
UnwrapDec(h) ==
    /\ pc[h] = "uw_dec"
    /\ count' = count - 1
    /\ fault' = Flt(Deref(fault), count = 0, "assert_count")
    /\ pc' = [pc EXCEPT ![h] = IF count = 1 THEN "uw_now" ELSE "uw_wait"]
    /\ cell' = [cell EXCEPT ![h] = IF count = 1 THEN @ ELSE "full"]
    /\ UNCHANGED <<res, ret, kill, tc, wl, peer, unwrapper, ready, ack, data,
                   box, destroyedBy, val0, alone, masked, failing>>
    /\ UNCHANGED exVars

\* We were the last owner: unwrap immediately (sync.rs:110-115).
UnwrapNow(h) ==
    /\ pc[h] = "uw_now"
    /\ TakePayload(h, "unwrapped")
    /\ masked' = [masked EXCEPT ![h] = FALSE]
    /\ failing' = [failing EXCEPT ![h] = FALSE]
    /\ UNCHANGED <<tc, wl, peer, count, unwrapper, ready, ack,
                   destroyedBy, val0, cell, alone>>
    /\ UNCHANGED exVars

\* Mutant of UnwrapRecv: the wait returns without a ready message.
UnwrapRecvNoWait(h) ==
    /\ pc[h] = "uw_wait"
    /\ ready' = [ready EXCEPT ![h] = "taken"]
    /\ pc' = [pc EXCEPT ![h] = "uw_ack"]
    /\ UNCHANGED <<res, ret, kill, tc, wl, peer, count, unwrapper, ack, data,
                   box, destroyedBy, fault, val0, cell, alone, masked, failing>>
    /\ UNCHANGED exVars

\* do task::rekillable { p1.take().recv(); } returns with the ready message
\* (sync.rs:123).
UnwrapRecv(h) ==
    /\ pc[h] = "uw_wait"
    /\ ready[h] = "sent"
    /\ ready' = [ready EXCEPT ![h] = "taken"]
    /\ pc' = [pc EXCEPT ![h] = "uw_ack"]
    /\ UNCHANGED <<res, ret, kill, tc, wl, peer, count, unwrapper, ack, data,
                   box, destroyedBy, fault, val0, cell, alone, masked, failing>>
    /\ UNCHANGED exVars

\* task::rekillable makes the task killable again only when the enclosing
\* task::unkillable of unwrap is the outermost one: "if called when the task
\* is already unkillable, unwrap will unkillably block" (sync.rs:87-90, 123).
Rekillable(h) == ~masked[h]

\* Mutant of UnwrapKilled: the failure leaves unwrap without running the
\* finally block, so no answer is sent.
UnwrapKilledNoAck(h) ==
    /\ pc[h] = "uw_wait"
    /\ kill[h]
    /\ Rekillable(h)
    /\ pc' = [pc EXCEPT ![h] = "done"]
    /\ res' = [res EXCEPT ![h] = "killed"]
    /\ kill' = [kill EXCEPT ![h] = FALSE]
    /\ UNCHANGED <<ret, tc, wl, peer, fault, val0, cell, alone, masked, failing>>
    /\ UNCHANGED arcVars
    /\ UNCHANGED exVars

\* The task is killed inside the rekillable wait: the do-block is left by
\* failure and the finally block runs (sync.rs:123, 132-133).
UnwrapKilled(h) ==
    /\ pc[h] = "uw_wait"
    /\ kill[h]
    /\ Rekillable(h)
    /\ pc' = [pc EXCEPT ![h] = "uw_fin"]
    /\ UNCHANGED <<res, ret, kill, tc, wl, peer, fault, val0, cell, alone, masked, failing>>
    /\ UNCHANGED arcVars
    /\ UNCHANGED exVars

\* Mutant of UnwrapAck: a pending kill is honoured before the answer is sent.
UnwrapAckInterruptible(h) ==
    /\ pc[h] = "uw_ack"
    /\ IF kill[h]
       THEN /\ pc' = [pc EXCEPT ![h] = "uw_fin"]
            /\ ack' = ack
       ELSE /\ pc' = [pc EXCEPT ![h] = "uw_take"]
            /\ ack' = [ack EXCEPT ![h] = "true"]
    /\ cell' = [cell EXCEPT ![h] = IF kill[h] THEN @ ELSE "empty"]
    /\ UNCHANGED <<res, ret, kill, tc, wl, peer, count, unwrapper, ready, data,
                   box, destroyedBy, fault, val0, alone, masked, failing>>
    /\ UNCHANGED exVars

\* Mutant of UnwrapAck: the answer is sent without emptying the cell.
UnwrapAckKeepsCell(h) ==
    /\ pc[h] = "uw_ack"
    /\ ack' = [ack EXCEPT ![h] = "true"]
    /\ pc' = [pc EXCEPT ![h] = "uw_take"]
    /\ UNCHANGED <<res, ret, kill, tc, wl, peer, count, unwrapper, ready, data,
                   box, destroyedBy, fault, val0, cell, alone, masked, failing>>
    /\ UNCHANGED exVars

\* let (c2, data) = c2_and_data.take(); c2.send(true) (sync.rs:125-126).
UnwrapAck(h) ==
    /\ pc[h] = "uw_ack"
    /\ ack' = [ack EXCEPT ![h] = "true"]
    /\ pc' = [pc EXCEPT ![h] = "uw_take"]
    /\ cell' = [cell EXCEPT ![h] = "empty"]
    /\ fault' = Flt(fault, cell[h] # "full", "take_empty_cell")
    /\ UNCHANGED <<res, ret, kill, tc, wl, peer, count, unwrapper, ready, data,
                   box, destroyedBy, val0, alone, masked, failing>>
    /\ UNCHANGED exVars

\* task::failing() as the finally block of unwrap reads it after a do-block
\* that ended normally: the task is unkillable there, so it is failing only
\* when it was failing before it called unwrap (sync.rs:93, 133).
TaskFailing(h) == failing[h]

\* data.data.take_unwrap() after the handoff: the payload leaves the box and
\* the box is freed at the end of the do-block (sync.rs:130-131).  Then the
\* finally block runs (sync.rs:132-143): when task::failing() it takes the
\* cell again, which fails on the cell emptied at line 125, so that unwrap
\* fails after it answered true and took the payload; otherwise it asserts
\* that the cell is empty and unwrap returns the payload.
UnwrapTake(h) ==
    /\ pc[h] = "uw_take"
    /\ data' = "None"
    /\ box' = "freed"
    /\ fault' = Flt(Flt(Deref(fault), data = "None", "take_none"),
                    IF TaskFailing(h) THEN cell[h] # "full" ELSE cell[h] # "empty",
                    IF TaskFailing(h) THEN "take_empty_cell" ELSE "assert_cell")
    /\ IF data = "Some" /\ ~TaskFailing(h) /\ cell[h] = "empty"
       THEN /\ ret' = [ret EXCEPT ![h] = val]
            /\ res' = [res EXCEPT ![h] = "unwrapped"]
       ELSE /\ ret' = ret
            /\ res' = [res EXCEPT ![h] = "failed"]
    /\ pc' = [pc EXCEPT ![h] = "done"]
    /\ kill' = [kill EXCEPT ![h] = FALSE]
    /\ masked' = [masked EXCEPT ![h] = FALSE]
    /\ failing' = [failing EXCEPT ![h] = FALSE]
    /\ UNCHANGED <<tc, wl, peer, count, unwrapper, ready, ack,
                   destroyedBy, val0, cell, alone>>
    /\ UNCHANGED exVars

\* Mutant of UnwrapFinally: the killed unwrapper answers true.
UnwrapFinallySendsTrue(h) ==
    /\ pc[h] = "uw_fin"
    /\ ack' = [ack EXCEPT ![h] = "true"]
    /\ res' = [res EXCEPT ![h] = "killed"]
    /\ pc' = [pc EXCEPT ![h] = "done"]
    /\ kill' = [kill EXCEPT ![h] = FALSE]
    /\ failing' = [failing EXCEPT ![h] = FALSE]
    /\ cell' = [cell EXCEPT ![h] = "empty"]
    /\ UNCHANGED <<ret, tc, wl, peer, count, unwrapper, ready, data, box,
                   destroyedBy, fault, val0, alone, masked>>
    /\ UNCHANGED exVars

\* Mutant of UnwrapFinally: the killed unwrapper frees the box instead of
\* forgetting it.
UnwrapFinallyFrees(h) ==
    /\ pc[h] = "uw_fin"
    /\ ack' = [ack EXCEPT ![h] = "false"]
    /\ res' = [res EXCEPT ![h] = "killed"]
    /\ pc' = [pc EXCEPT ![h] = "done"]
    /\ kill' = [kill EXCEPT ![h] = FALSE]
    /\ failing' = [failing EXCEPT ![h] = FALSE]
    /\ destroyedBy' = IF data = "Some" THEN destroyedBy \cup {h} ELSE destroyedBy
    /\ data' = "None"
    /\ box' = "freed"
    /\ cell' = [cell EXCEPT ![h] = "empty"]
    /\ UNCHANGED <<ret, tc, wl, peer, count, unwrapper, ready, fault, val0, alone, masked>>
    /\ UNCHANGED exVars

\* Mutant of UnwrapFinally: the killed unwrapper also empties the slot.
UnwrapFinallyClearsSlot(h) ==
    /\ pc[h] = "uw_fin"
    /\ ack' = [ack EXCEPT ![h] = "false"]
    /\ res' = [res EXCEPT ![h] = "killed"]
    /\ pc' = [pc EXCEPT ![h] = "done"]
    /\ kill' = [kill EXCEPT ![h] = FALSE]
    /\ failing' = [failing EXCEPT ![h] = FALSE]
    /\ unwrapper' = NoHandle
    /\ cell' = [cell EXCEPT ![h] = "empty"]
    /\ UNCHANGED <<ret, tc, wl, peer, count, ready, data, box,
                   destroyedBy, fault, val0, alone, masked>>
    /\ UNCHANGED exVars

\* finally block when task::failing(): c2.send(false); cast::forget(data);
\* the failure then propagates out of unwrap (sync.rs:133-139).
UnwrapFinally(h) ==
    /\ pc[h] = "uw_fin"
    /\ ack' = [ack EXCEPT ![h] = "false"]
    /\ res' = [res EXCEPT ![h] = "killed"]
    /\ pc' = [pc EXCEPT ![h] = "done"]
    /\ kill' = [kill EXCEPT ![h] = FALSE]
    /\ failing' = [failing EXCEPT ![h] = FALSE]
    /\ cell' = [cell EXCEPT ![h] = "empty"]
    /\ fault' = Flt(fault, cell[h] # "full", "take_empty_cell")
    /\ UNCHANGED <<ret, tc, wl, peer, count, unwrapper, ready, data, box,
                   destroyedBy, val0, alone, masked>>
    /\ UNCHANGED exVars

\* ---- drop ---------------------------------------------------------------
\* Mutant of DropDec: every drop goes on to the slot, whatever the old count.
DropDecAlwaysLast(h) ==
    /\ pc[h] \in {"idle", "dr_dec"}
    /\ count' = count - 1
    /\ fault' = Flt(Deref(fault), count = 0, "assert_count")
    /\ pc' = [pc EXCEPT ![h] = "dr_slot"]
    /\ res' = [res EXCEPT ![h] = IF pc[h] = "idle" THEN "none" ELSE @]
    /\ kill' = kill
    /\ UNCHANGED <<ret, tc, wl, peer, unwrapper, ready, ack, data, box,
                   destroyedBy, val0, cell, alone, masked, failing>>
    /\ UNCHANGED exVars

\* Drop for UnsafeAtomicRcBox, entered by an ordinary drop of a live handle
\* or by the unwinding of a rejected unwrap: count.fetch_sub(1), assert
\* old_count >= 1; if old_count != 1 the box is forgotten (sync.rs:197-206,
\* 228-230).
DropDec(h) ==
    /\ pc[h] \in {"idle", "dr_dec"}
    /\ count' = count - 1
    /\ fault' = Flt(Deref(fault), count = 0, "assert_count")
    /\ pc' = [pc EXCEPT ![h] = IF count = 1 THEN "dr_slot" ELSE "done"]
    /\ res' = [res EXCEPT ![h] = IF pc[h] = "idle"
                                 THEN (IF count = 1 THEN "none" ELSE "dropped")
                                 ELSE @]
    /\ kill' = [kill EXCEPT ![h] = IF count = 1 THEN @ ELSE FALSE]
    /\ UNCHANGED <<ret, tc, wl, peer, unwrapper, ready, ack, data, box,
                   destroyedBy, val0, cell, alone, masked, failing>>
    /\ UNCHANGED exVars

\* Mutant of DropSlot: the last dropper does not look at the slot.
DropSlotIgnoresPair(h) ==
    /\ pc[h] = "dr_slot"
    /\ pc' = [pc EXCEPT ![h] = "dr_glue"]
    /\ fault' = Deref(fault)
    /\ UNCHANGED <<res, ret, kill, tc, wl, peer, unwrapper, count, ready, ack, data, box,
                   destroyedBy, val0, cell, alone, masked, failing>>
    /\ UNCHANGED exVars

\* match data.unwrapper.take(Acquire) (sync.rs:212-213, 224).
DropSlot(h) ==
    /\ pc[h] = "dr_slot"
    /\ unwrapper' = NoHandle
    /\ peer' = [peer EXCEPT ![h] = unwrapper]
    /\ pc' = [pc EXCEPT ![h] = IF unwrapper = NoHandle THEN "dr_glue" ELSE "dr_send"]
    /\ fault' = Deref(fault)
    /\ UNCHANGED <<res, ret, kill, tc, wl, count, ready, ack, data, box,
                   destroyedBy, val0, cell, alone, masked, failing>>
    /\ UNCHANGED exVars

\* message.send(()) (sync.rs:215).  A message sent after the receiving end
\* was given up by a killed unwrapper is never received.
DropSend(h) ==
    /\ pc[h] = "dr_send"
    /\ ready' = [ready EXCEPT ![peer[h]] = "sent"]
    /\ pc' = [pc EXCEPT ![h] = "dr_recv"]
    /\ UNCHANGED <<res, ret, kill, tc, wl, peer, count, unwrapper, ack, data,
                   box, destroyedBy, fault, val0, cell, alone, masked, failing>>
    /\ UNCHANGED exVars

\* Mutant of DropRecv: the test of the answer is inverted.
DropRecvInverted(h) ==
    /\ pc[h] = "dr_recv"
    /\ ack[peer[h]] # "none"
    /\ IF ack[peer[h]] = "false"
       THEN /\ pc' = [pc EXCEPT ![h] = "done"]
            /\ res' = [res EXCEPT ![h] = IF @ = "none" THEN "dropped" ELSE @]
            /\ kill' = [kill EXCEPT ![h] = FALSE]
       ELSE /\ pc' = [pc EXCEPT ![h] = "dr_glue"]
            /\ UNCHANGED <<res, kill>>
    /\ UNCHANGED <<ret, tc, wl, peer, fault, val0, cell, alone, masked, failing>>
    /\ UNCHANGED arcVars
    /\ UNCHANGED exVars

\* if response.recv() { cast::forget(data) } else { drop glue } (sync.rs:217-222).
DropRecv(h) ==
    /\ pc[h] = "dr_recv"
    /\ ack[peer[h]] # "none"
    /\ IF ack[peer[h]] = "true"
       THEN /\ pc' = [pc EXCEPT ![h] = "done"]
            /\ res' = [res EXCEPT ![h] = IF @ = "none" THEN "dropped" ELSE @]
            /\ kill' = [kill EXCEPT ![h] = FALSE]
       ELSE /\ pc' = [pc EXCEPT ![h] = "dr_glue"]
            /\ UNCHANGED <<res, kill>>
    /\ UNCHANGED <<ret, tc, wl, peer, fault, val0, cell, alone, masked, failing>>
    /\ UNCHANGED arcVars
    /\ UNCHANGED exVars

\* "drop glue takes over": the box is freed at the end of the scope, and the
\* payload, if still in it, is destroyed with it (sync.rs:221, 225, 231).
DropGlue(h) ==
    /\ pc[h] = "dr_glue"
    /\ destroyedBy' = IF data = "Some" /\ box = "alloc"
                      THEN destroyedBy \cup {h} ELSE destroyedBy
    /\ data' = "None"
    /\ box' = "freed"
    /\ fault' = Flt(fault, box = "freed", "double_free")
    /\ pc' = [pc EXCEPT ![h] = "done"]
    /\ res' = [res EXCEPT ![h] = IF @ = "none" THEN "dropped" ELSE @]
    /\ kill' = [kill EXCEPT ![h] = FALSE]
    /\ UNCHANGED <<ret, tc, wl, peer, count, unwrapper, ready, ack, val0, cell, alone, masked, failing>>
    /\ UNCHANGED exVars

\* ---- try_unwrap ---------------------------------------------------------
\* Mutant of TryLoad: the count is not loaded and taken to be 1.
TryLoadAssumesOne(h) ==
    /\ pc[h] = "idle"
    /\ tc' = [tc EXCEPT ![h] = 1]
    /\ fault' = Flt(Deref(fault), count = 0, "assert_count")
    /\ pc' = [pc EXCEPT ![h] = "tu_check"]
    /\ res' = [res EXCEPT ![h] = "none"]
    /\ alone' = [alone EXCEPT ![h] = Only(h)]
    /\ UNCHANGED <<ret, kill, wl, peer, val0, cell, masked, failing>>
    /\ UNCHANGED arcVars
    /\ UNCHANGED exVars

\* let count = data.count.load(Acquire); assert!(count >= 1) (sync.rs:157-163).
TryLoad(h) ==
    /\ pc[h] = "idle"
    /\ tc' = [tc EXCEPT ![h] = count]
    /\ fault' = Flt(Deref(fault), count = 0, "assert_count")
    /\ pc' = [pc EXCEPT ![h] = "tu_check"]
    /\ res' = [res EXCEPT ![h] = "none"]
    /\ alone' = [alone EXCEPT ![h] = Only(h)]
    /\ UNCHANGED <<ret, kill, wl, peer, val0, cell, masked, failing>>
    /\ UNCHANGED arcVars
    /\ UNCHANGED exVars

\* Mutant of TryCheck: any count of at least 1 is taken for the last reference.
TryCheckAnyCount(h) ==
    /\ pc[h] = "tu_check"
    /\ IF tc[h] >= 1 /\ unwrapper = NoHandle
       THEN /\ pc' = [pc EXCEPT ![h] = "tu_take"]
            /\ UNCHANGED <<res, alone>>
       ELSE /\ pc' = [pc EXCEPT ![h] = "idle"]
            /\ res' = [res EXCEPT ![h] = "left"]
            /\ alone' = [alone EXCEPT ![h] = FALSE]
    /\ tc' = [tc EXCEPT ![h] = 0]
    /\ fault' = Deref(fault)
    /\ UNCHANGED <<ret, kill, wl, peer, val0, cell, masked, failing>>
    /\ UNCHANGED arcVars
    /\ UNCHANGED exVars

\* Mutant of TryCheck: the slot is examined with take() instead of is_empty().
TryCheckTakesSlot(h) ==
    /\ pc[h] = "tu_check"
    /\ IF tc[h] = 1 /\ unwrapper = NoHandle
       THEN /\ pc' = [pc EXCEPT ![h] = "tu_take"]
            /\ UNCHANGED <<res, alone>>
       ELSE /\ pc' = [pc EXCEPT ![h] = "idle"]
            /\ res' = [res EXCEPT ![h] = "left"]
            /\ alone' = [alone EXCEPT ![h] = FALSE]
    /\ unwrapper' = IF tc[h] = 1 THEN NoHandle ELSE unwrapper
    /\ tc' = [tc EXCEPT ![h] = 0]
    /\ fault' = IF tc[h] = 1 THEN Deref(fault) ELSE fault
    /\ UNCHANGED <<ret, kill, wl, peer, val0, cell, masked, failing>>
    /\ UNCHANGED <<count, ready, ack, data, box, destroyedBy>>
    /\ UNCHANGED exVars

\* if count == 1 && data.unwrapper.is_empty(Acquire) { this.data = null; ... }
\* else { cast::forget(data); Left(this) } (sync.rs:168-170, 173-176).
TryCheck(h) ==
    /\ pc[h] = "tu_check"
    /\ IF tc[h] = 1 /\ unwrapper = NoHandle
       THEN /\ pc' = [pc EXCEPT ![h] = "tu_take"]
            /\ UNCHANGED <<res, alone>>
       ELSE /\ pc' = [pc EXCEPT ![h] = "idle"]
            /\ res' = [res EXCEPT ![h] = "left"]
            /\ alone' = [alone EXCEPT ![h] = FALSE]
    /\ tc' = [tc EXCEPT ![h] = 0]
    /\ fault' = IF tc[h] = 1 THEN Deref(fault) ELSE fault
    /\ UNCHANGED <<ret, kill, wl, peer, val0, cell, masked, failing>>
    /\ UNCHANGED arcVars
    /\ UNCHANGED exVars

\* Right(data.data.take_unwrap()) (sync.rs:172).
TryTake(h) ==
    /\ pc[h] = "tu_take"
    /\ TakePayload(h, "tried")
    /\ UNCHANGED <<tc, wl, peer, count, unwrapper, ready, ack,
                   destroyedBy, val0, cell, alone, masked, failing>>
    /\ UNCHANGED exVars

\* ---- Exclusive::with ----------------------------------------------------
\* let rec = self.x.get(): assert!(count > 0), data.data.get_mut_ref()
\* (sync.rs:68-75, 323).
WithGet(h) ==
    /\ pc[h] = "idle"
    /\ fault' = Flt(Flt(Deref(fault), count = 0, "assert_count"),
                    data = "None", "get_none")
    /\ pc' = [pc EXCEPT ![h] = "w_lock"]
    /\ res' = [res EXCEPT ![h] = "none"]
    /\ UNCHANGED <<ret, kill, tc, wl, peer, val0, cell, alone, masked, failing>>
    /\ UNCHANGED arcVars
    /\ UNCHANGED exVars

\* Mutant of LockAcquire: the lock is taken without waiting for it to be free.
LockAcquireNoWait(h) ==
    /\ pc[h] = "w_lock"
    /\ lock' = h
    /\ pc' = [pc EXCEPT ![h] = "w_check"]
    /\ fault' = Deref(fault)
    /\ UNCHANGED <<res, ret, kill, tc, wl, peer, val0, cell, alone, masked, failing, val, failed, incs, everAborted>>
    /\ UNCHANGED arcVars

\* LittleLock::lock: rust_lock_little_lock(self.l) (sync.rs:266).
LockAcquire(h) ==
    /\ pc[h] = "w_lock"
    /\ lock = NoHandle
    /\ lock' = h
    /\ pc' = [pc EXCEPT ![h] = "w_check"]
    /\ fault' = Deref(fault)
    /\ UNCHANGED <<res, ret, kill, tc, wl, peer, val0, cell, alone, masked, failing, val, failed, incs, everAborted>>
    /\ UNCHANGED arcVars

\* Mutant of WithCheck: the failed flag is not looked at.
WithCheckIgnoresFailed(h) ==
    /\ pc[h] = "w_check"
    /\ pc' = [pc EXCEPT ![h] = "w_set"]
    /\ fault' = Deref(fault)
    /\ UNCHANGED <<res, ret, kill, tc, wl, peer, val0, cell, alone, masked, failing>>
    /\ UNCHANGED arcVars
    /\ UNCHANGED exVars

\* if (*rec).failed { fail!("Poisoned exclusive ...") } (sync.rs:325-327).
WithCheck(h) ==
    /\ pc[h] = "w_check"
    /\ IF failed
       THEN /\ pc' = [pc EXCEPT ![h] = "w_unlock"]
            /\ res' = [res EXCEPT ![h] = "poisoned"]
       ELSE /\ pc' = [pc EXCEPT ![h] = "w_set"]
            /\ res' = res
    /\ fault' = Deref(fault)
    /\ UNCHANGED <<ret, kill, tc, wl, peer, val0, cell, alone, masked, failing>>
    /\ UNCHANGED arcVars
    /\ UNCHANGED exVars

\* (*rec).failed = true (sync.rs:328).
WithSet(h) ==
    /\ pc[h] = "w_set"
    /\ failed' = TRUE
    /\ pc' = [pc EXCEPT ![h] = "w_read"]
    /\ fault' = Deref(fault)
    /\ UNCHANGED <<res, ret, kill, tc, wl, peer, val0, cell, alone, masked, failing, val, lock, incs, everAborted>>
    /\ UNCHANGED arcVars

\* The closure f(&mut (*rec).data) returns without writing the payload: the
\* empty closure, a closure that only reads, and every closure run through
\* with_imm, which gets &T (sync.rs:329, 335-340, 395-397, 481).
WithReturn(h) ==
    /\ pc[h] = "w_read"
    /\ pc' = [pc EXCEPT ![h] = "w_clear"]
    /\ fault' = Deref(fault)
    /\ UNCHANGED <<res, ret, kill, tc, wl, peer, val0, cell, alone, masked, failing>>
    /\ UNCHANGED arcVars
    /\ UNCHANGED exVars

\* The counting closure f(&mut (*rec).data) reads the payload ...
\* (sync.rs:329, 386).  The number of increments is bounded by MaxWith.
WithRead(h) ==
    /\ pc[h] = "w_read"
    /\ incs < MaxWith
    /\ wl' = [wl EXCEPT ![h] = val]
    /\ pc' = [pc EXCEPT ![h] = "w_write"]
    /\ fault' = Deref(fault)
    /\ UNCHANGED <<res, ret, kill, tc, peer, val0, cell, alone, masked, failing>>
    /\ UNCHANGED arcVars
    /\ UNCHANGED exVars

\* ... and writes it back incremented (sync.rs:329, 386).
WithWrite(h) ==
    /\ pc[h] = "w_write"
    /\ val' = wl[h] + 1
    /\ incs' = incs + 1
    /\ wl' = [wl EXCEPT ![h] = 0]
    /\ pc' = [pc EXCEPT ![h] = "w_clear"]
    /\ fault' = Deref(fault)
    /\ UNCHANGED <<res, ret, kill, tc, peer, val0, cell, alone, masked, failing, failed, lock, everAborted>>
    /\ UNCHANGED arcVars

\* Mutant of WithAbort: the unwinding of the failed call also gives up the
\* reference of the handle, which stays in use.
WithAbortDropsRef(h) ==
    /\ pc[h] \in {"w_read", "w_write"}
    /\ everAborted' = TRUE
    /\ wl' = [wl EXCEPT ![h] = 0]
    /\ res' = [res EXCEPT ![h] = "aborted"]
    /\ pc' = [pc EXCEPT ![h] = "w_unlock"]
    /\ count' = count - 1
    /\ UNCHANGED <<ret, kill, tc, peer, fault, val0, cell, alone, masked, failing, val, failed, lock, incs>>
    /\ UNCHANGED <<unwrapper, ready, ack, data, box, destroyedBy>>

\* Mutant of WithAbort: the failure leaves lock() without the unlock.
WithAbortKeepsLock(h) ==
    /\ pc[h] \in {"w_read", "w_write"}
    /\ everAborted' = TRUE
    /\ wl' = [wl EXCEPT ![h] = 0]
    /\ res' = [res EXCEPT ![h] = "aborted"]
    /\ pc' = [pc EXCEPT ![h] = "idle"]
    /\ UNCHANGED <<ret, kill, tc, peer, fault, val0, cell, alone, masked, failing, val, failed, lock, incs>>
    /\ UNCHANGED arcVars

\* The closure aborts abnormally (fails): the rest of `with` is skipped and
\* only the finally block of lock() runs (sync.rs:329, 269-271, 410).
WithAbort(h) ==
    /\ pc[h] \in {"w_read", "w_write"}
    /\ everAborted' = TRUE
    /\ wl' = [wl EXCEPT ![h] = 0]
    /\ res' = [res EXCEPT ![h] = "aborted"]
    /\ pc' = [pc EXCEPT ![h] = "w_unlock"]
    /\ UNCHANGED <<ret, kill, tc, peer, fault, val0, cell, alone, masked, failing, val, failed, lock, incs>>
    /\ UNCHANGED arcVars

\* Mutant of WithClear: the flag is not reset after the closure returned.
WithClearKeepsFlag(h) ==
    /\ pc[h] = "w_clear"
    /\ res' = [res EXCEPT ![h] = "ok"]
    /\ pc' = [pc EXCEPT ![h] = "w_unlock"]
    /\ fault' = Deref(fault)
    /\ UNCHANGED <<ret, kill, tc, wl, peer, val0, cell, alone, masked, failing, val, failed, lock, incs, everAborted>>
    /\ UNCHANGED arcVars

\* (*rec).failed = false; result (sync.rs:330-331).
WithClear(h) ==
    /\ pc[h] = "w_clear"
    /\ failed' = FALSE
    /\ res' = [res EXCEPT ![h] = "ok"]
    /\ pc' = [pc EXCEPT ![h] = "w_unlock"]
    /\ fault' = Deref(fault)
    /\ UNCHANGED <<ret, kill, tc, wl, peer, val0, cell, alone, masked, failing, val, lock, incs, everAborted>>
    /\ UNCHANGED arcVars

\* finally { rust_unlock_little_lock(self.l) } (sync.rs:269-271).
LockRelease(h) ==
    /\ pc[h] = "w_unlock"
    /\ lock' = NoHandle
    /\ pc' = [pc EXCEPT ![h] = "idle"]
    /\ fault' = Deref(fault)
    /\ UNCHANGED <<res, ret, kill, tc, wl, peer, val0, cell, alone, masked, failing, val, failed, incs, everAborted>>
    /\ UNCHANGED arcVars

\* ---- cancellation -------------------------------------------------------
\* A kill request (linked failure) reaches the task that is inside unwrap or
\* drop on handle h.  It is honoured only where the code is rekillable.
InProtocol == {"uw_fill", "uw_dec", "uw_now", "uw_wait", "uw_ack", "uw_take",
               "dr_dec", "dr_slot", "dr_send", "dr_recv", "dr_glue"}

Kill(h) ==
    /\ pc[h] \in InProtocol
    /\ ~kill[h]
    /\ kill' = [kill EXCEPT ![h] = TRUE]
    /\ UNCHANGED <<pc, res, ret, tc, wl, peer, fault, val0, cell, alone, masked, failing>>
    /\ UNCHANGED arcVars
    /\ UNCHANGED exVars

\* ---- specification ------------------------------------------------------
Next ==
    \E h \in Handles :
        \/ Clone(h)
        \/ StartUnwrap(h)
        \/ UnwrapFill(h)
        \/ UnwrapDec(h)
        \/ UnwrapNow(h)
        \/ UnwrapRecv(h)
        \/ UnwrapKilled(h)
        \/ UnwrapAck(h)
        \/ UnwrapTake(h)
        \/ UnwrapFinally(h)
        \/ DropDec(h)
        \/ DropSlot(h)
        \/ DropSend(h)
        \/ DropRecv(h)
        \/ DropGlue(h)
        \/ TryLoad(h)
        \/ TryCheck(h)
        \/ TryTake(h)
        \/ WithGet(h)
        \/ LockAcquire(h)
        \/ WithCheck(h)
        \/ WithSet(h)
        \/ WithReturn(h)
        \/ WithRead(h)
        \/ WithWrite(h)
        \/ WithAbort(h)
        \/ WithClear(h)
        \/ LockRelease(h)
        \/ Kill(h)

Spec == Init /\ [][Next]_vars

\* ---- fair scheduling ----------------------------------------------------
\* A task that is inside a call keeps running: every step of a call other
\* than the call being made, a closure aborting or a kill request arriving is
\* eventually taken when it stays possible.
Continue(h) ==
    \/ UnwrapFill(h)
    \/ UnwrapDec(h)
    \/ UnwrapNow(h)
    \/ UnwrapRecv(h)
    \/ UnwrapKilled(h)
    \/ UnwrapAck(h)
    \/ UnwrapTake(h)
    \/ UnwrapFinally(h)
    \/ (pc[h] = "dr_dec" /\ DropDec(h))
    \/ DropSlot(h)
    \/ DropSend(h)
    \/ DropRecv(h)
    \/ DropGlue(h)
    \/ TryCheck(h)
    \/ TryTake(h)
    \/ LockAcquire(h)
    \/ WithCheck(h)
    \/ WithSet(h)
    \/ WithReturn(h)
    \/ WithRead(h)
    \/ WithWrite(h)
    \/ WithClear(h)
    \/ LockRelease(h)

\* The payload value takes no part in the scheduling of the calls: the fair
\* specification starts from new or new2 on the largest initial payload.
InitFair == \E n \in {1, 2} : NewBox(n, MaxInit)

FairSpec == InitFair /\ [][Next]_vars /\ \A h \in Handles : WF_vars(Continue(h))

\* ---- properties ---------------------------------------------------------
UnwrapPcs == {"uw_fill", "uw_dec", "uw_now", "uw_wait", "uw_ack", "uw_take", "uw_fin"}
DropPcs == {"dr_dec", "dr_slot", "dr_send", "dr_recv", "dr_glue"}
CriticalPcs == {"w_check", "w_set", "w_read", "w_write", "w_clear", "w_unlock"}
ClosurePcs == {"w_set", "w_read", "w_write", "w_clear"}

\* No handle is live and no call is in progress.
AllRetired == \A h \in Handles : pc[h] \in {"unused", "done"}

\* The calls that took the payload out of the box.
Extractors == {h \in Handles : res[h] \in {"unwrapped", "tried"}}

\* How often the payload was extracted or destroyed.
NExtract == Cardinality(Extractors) + Cardinality(destroyedBy)

\* C1: once no handle is live and no call is in progress, the payload was
\* extracted or destroyed exactly once, by exactly one of the last ordinary
\* drop, a successful unwrap and a successful try_unwrap; at no time was it
\* taken twice, no take found it gone and the box was freed once.
C1_ExactlyOnce ==
    /\ NExtract <= 1
    /\ fault = "none"
    /\ \A h \in Handles : res[h] # "failed"
    /\ AllRetired => /\ NExtract = 1
                     /\ data = "None"
                     /\ box = "freed"

\* C1 witness: all handles are retired and none of the three took the
\* payload: the unwrap of a task that was already failing answered true to
\* the last dropper, took the payload out of the box and then failed in its
\* finally block.
C1_Witness ==
    /\ AllRetired
    /\ NExtract = 0
    /\ data = "None"
    /\ box = "freed"
    /\ \E a, b \in Handles :
        /\ res[a] = "failed"
        /\ ack[a] = "true"
        /\ peer[b] = a
        /\ res[b] = "dropped"

\* C2: at most one task is between lock and unlock of `with`, it is the one
\* holding the lock, and the counter always equals its initial value plus the
\* number of completed increments (no update is lost).
C2_WithExclusive ==
    /\ Cardinality({h \in Handles : pc[h] \in CriticalPcs}) <= 1
    /\ \A h \in Handles : pc[h] \in CriticalPcs => lock = h
    /\ val = val0 + incs

\* C2 witness: two tasks have each completed an increment through their own
\* handle and the counter is two above its initial value.
C2_Witness ==
    \E h, g \in Handles :
        /\ h # g
        /\ res[h] = "ok"
        /\ res[g] = "ok"
        /\ incs = 2
        /\ val = val0 + 2

\* C3: once a closure of `with` has aborted, the failed flag is true and
\* stays true, no closure runs any more, and every `with` call that reaches
\* its check fails with Poisoned.
C3_PoisonSticky ==
    /\ [](everAborted => /\ failed
                         /\ \A h \in Handles : pc[h] \notin ClosurePcs)
    /\ [][\A h \in Handles :
            (everAborted /\ pc[h] = "w_check" /\ pc'[h] # "w_check")
                => (res'[h] = "poisoned" /\ pc'[h] = "w_unlock" /\ failed')]_vars

\* C3 witness: a clone made after the abort has failed with Poisoned.
C3_Witness ==
    \E h, g \in Handles :
        /\ h < g
        /\ res[h] = "aborted"
        /\ res[g] = "poisoned"
        /\ pc[g] = "idle"

\* Handle h is in a call of unwrap or its unwrap call is over.
CalledUnwrap(h) ==
    \/ pc[h] \in UnwrapPcs
    \/ pc[h] \in DropPcs /\ res[h] = "conflict"
    \/ pc[h] = "done" /\ res[h] \in {"unwrapped", "conflict", "killed", "failed"}

\* Handle h never existed or was retired by an ordinary drop.
DroppedOrUnused(h) == pc[h] = "unused" \/ (pc[h] = "done" /\ res[h] = "dropped")

\* a and b are the only two handles and unwrap was called on both.
SiblingsUnwrap(a, b) ==
    /\ a # b
    /\ CalledUnwrap(a)
    /\ CalledUnwrap(b)
    /\ \A c \in Handles \ {a, b} : DroppedOrUnused(c)

\* C4: when unwrap is called on both of the only two handles and no call is
\* cancelled, never both calls get the payload and never both are rejected;
\* once both are over, exactly one returned the payload and the other failed
\* with the conflict error; and under fair scheduling both calls end.
C4_SiblingUnwrap ==
    /\ [](\A a, b \in Handles :
            SiblingsUnwrap(a, b) /\ res[a] # "killed" /\ res[b] # "killed" =>
                /\ ~(res[a] = "unwrapped" /\ res[b] = "unwrapped")
                /\ ~(res[a] = "conflict" /\ res[b] = "conflict")
                /\ (pc[a] = "done" /\ pc[b] = "done") =>
                       \/ res[a] = "unwrapped" /\ res[b] = "conflict"
                       \/ res[a] = "conflict" /\ res[b] = "unwrapped")
    /\ ((\E a, b \in Handles : SiblingsUnwrap(a, b)) ~> AllRetired)

\* C4 witness: both calls are over and neither returned the payload: the
\* second was rejected and woke the first, whose task was already failing and
\* whose finally block failed after the take.
C4_Witness ==
    \E a, b \in Handles :
        /\ SiblingsUnwrap(a, b)
        /\ res[a] = "failed"
        /\ ret[a] = -1
        /\ pc[a] = "done"
        /\ res[b] = "conflict"
        /\ pc[b] = "done"
        /\ peer[b] = a

\* C5: an unwrap cancelled in its wait returns no payload and extracts none,
\* has sent the acknowledgment false when the failure leaves the call, and
\* when the payload is gone it was destroyed by the handle whose drop took
\* the count to zero and took the cancelled unwrapper's pair from the slot.
C5_CancelledUnwrap ==
    \A h \in Handles :
        res[h] = "killed" =>
            /\ ret[h] = -1
            /\ ack[h] = "false"
            /\ Extractors = {}
            /\ h \notin destroyedBy
            /\ box = "freed" => \E g \in Handles \ {h} :
                                    /\ destroyedBy = {g}
                                    /\ peer[g] = h
                                    /\ pc[g] = "done"
            /\ AllRetired => box = "freed"

\* C5 witness: the unwrap was cancelled and the sibling's later drop has
\* destroyed the payload.
C5_Witness ==
    \E h, g \in Handles :
        /\ res[h] = "killed"
        /\ destroyedBy = {g}
        /\ res[g] = "dropped"
        /\ AllRetired

\* An accepted unwrap on h is in progress and every other handle has been
\* dropped (its drop has started or is over) or never existed.
OthersDropped(h) ==
    \A g \in Handles \ {h} : pc[g] \in {"unused", "done"} \cup DropPcs

AcceptedUnwrap(h) == pc[h] \in {"uw_dec", "uw_now", "uw_wait", "uw_ack", "uw_take"}

\* C6: under fair scheduling an accepted unwrap whose sibling handles have
\* all been dropped, before or after it started to wait, eventually returns
\* the stored payload, unless it is cancelled; the value returned is the one
\* stored (the initial value plus the completed increments).
C6_UnwrapReturns ==
    /\ \A h \in Handles :
        (AcceptedUnwrap(h) /\ OthersDropped(h))
            ~> (res[h] = "killed" \/ (res[h] = "unwrapped" /\ ret[h] = val0 + incs))
    /\ [](\A h \in Handles : res[h] = "unwrapped" => ret[h] = val0 + incs)

\* C6 witness: the unwrapper, whose task was already failing, waited, was
\* woken by the last dropper, was never cancelled and returned no payload.
C6_Witness ==
    \E h, g \in Handles :
        /\ res[h] = "failed"
        /\ ret[h] = -1
        /\ ready[h] = "taken"
        /\ ack[h] = "true"
        /\ peer[g] = h
        /\ res[g] = "dropped"
        /\ fault = "take_empty_cell"

\* try_unwrap on g, the only other handle, has given the handle back while
\* the unwrap on h is blocked in its wait.
LostRace(g, h) ==
    /\ g # h
    /\ res[g] = "left"
    /\ pc[g] = "idle"
    /\ pc[h] = "uw_wait"
    /\ unwrapper = h
    /\ \A k \in Handles \ {g, h} : pc[k] \in {"unused", "done"}

\* Some handle other than h is not retired.
OthersRemain(h) == \E k \in Handles \ {h} : pc[k] \notin {"unused", "done"}

\* C7: try_unwrap never gets the payload while unwrap is in progress on
\* another handle, from before the slot is installed to the blocked wait: a
\* try_unwrap that read the count as 1 while an unwrap is in progress finds
\* the slot occupied, and no try_unwrap holds or has returned the payload
\* while another handle is in unwrap or has unwrapped it; and the unwrapper
\* is the one that obtains the payload after the handle given back is
\* dropped: under fair scheduling, once try_unwrap has given the handle back
\* to the only other task, the unwrap returns the payload (or is cancelled
\* in its wait) unless the other handles are never all retired.
C7_UnwrapWinsRace ==
    /\ [](\A g \in Handles :
            /\ (pc[g] = "tu_check" /\ tc[g] = 1 /\
                   \E h \in Handles \ {g} : pc[h] \in UnwrapPcs)
                 => unwrapper # NoHandle
            /\ (pc[g] = "tu_take" \/ res[g] = "tried")
                 => \A h \in Handles \ {g} : pc[h] \notin UnwrapPcs /\ res[h] # "unwrapped")
    /\ \A g, h \in Handles :
          [](LostRace(g, h)
               => \/ <>[]OthersRemain(h)
                  \/ <>(res[h] = "killed" \/ (res[h] = "unwrapped" /\ ret[h] = val0 + incs)))

\* C7 witness: try_unwrap has read the count as 1 because the blocked
\* unwrapper, whose task was already failing when it called unwrap, has
\* already dropped its own count.
C7_Witness ==
    \E g, h \in Handles :
        /\ g # h
        /\ pc[g] = "tu_check"
        /\ tc[g] = 1
        /\ pc[h] = "uw_wait"
        /\ unwrapper = h
        /\ failing[h]

\* Every handle other than h never existed or has completed an ordinary drop.
OnlyAfterDrops(h) == \A g \in Handles \ {h} : DroppedOrUnused(g)

\* C8: try_unwrap holds or returns the payload only when no other handle
\* keeps a reference, and a handle it gave back is live again; called after
\* every sibling was dropped it reads the count 1, finds the slot empty,
\* takes the payload and returns the stored value.
C8_TryUnwrap ==
    /\ [](\A g \in Handles :
            /\ (pc[g] = "tu_take" \/ res[g] = "tried") => Counted \subseteq {g}
            /\ res[g] = "left" => pc[g] = "idle" /\ g \in Counted /\ data = "Some"
            /\ res[g] = "tried" => ret[g] = val0 + incs)
    /\ [][\A g \in Handles :
            /\ (pc[g] = "idle" /\ pc'[g] = "tu_check" /\ OnlyAfterDrops(g))
                 => tc'[g] = 1
            /\ (pc[g] = "tu_check" /\ pc'[g] # "tu_check" /\ tc[g] = 1
                  /\ OnlyAfterDrops(g))
                 => pc'[g] = "tu_take"
            /\ (pc[g] = "tu_take" /\ pc'[g] # "tu_take")
                 => res'[g] = "tried" /\ ret'[g] = val]_vars

\* C8 witness: after the sibling's drop, try_unwrap on the remaining handle
\* has returned the payload as it was given to the constructor.
C8_Witness ==
    \E g, h \in Handles :
        /\ g # h
        /\ res[h] = "dropped"
        /\ res[g] = "tried"
        /\ ret[g] = val0
        /\ incs = 0

\* C9 as stated: unwrap or try_unwrap called on the only handle gets the
\* payload at once: unwrap installs the slot and its decrement does not lead
\* to the wait, try_unwrap reads the count 1 and takes the payload.
C9_AsStated ==
    [][\A h \in Handles :
        /\ (alone[h] /\ pc[h] = "uw_fill" /\ pc'[h] # "uw_fill") => pc'[h] = "uw_dec"
        /\ (alone[h] /\ pc[h] = "uw_dec" /\ pc'[h] # "uw_dec") => pc'[h] = "uw_now"
        /\ (alone[h] /\ pc[h] = "tu_check" /\ pc'[h] # "tu_check")
             => pc'[h] = "tu_take"]_vars

\* C9 amended: unwrap or try_unwrap called on the only handle of an
\* allocation whose handoff slot is empty gets the payload at once, and an
\* unwrap whose own decrement takes the count from 1 to 0 never enters the
\* wait; when the slot was left occupied by an unwrap cancelled in its wait,
\* unwrap is rejected with the conflict error and try_unwrap gives the handle
\* back.
C9_OnlyHandle ==
    /\ [](\A h \in Handles :
            /\ (alone[h] /\ pc[h] \in {"uw_fill", "uw_dec", "tu_check"}) => count = 1
            /\ (alone[h] /\ pc[h] = "tu_check") => tc[h] = 1
            /\ (alone[h] /\ pc[h] \in {"uw_fill", "tu_check"} /\ unwrapper # NoHandle)
                 => res[unwrapper] = "killed")
    /\ [][\A h \in Handles :
            /\ (alone[h] /\ pc[h] = "uw_fill" /\ pc'[h] # "uw_fill")
                 => IF unwrapper = NoHandle
                    THEN pc'[h] = "uw_dec"
                    ELSE pc'[h] = "dr_dec" /\ res'[h] = "conflict"
            /\ (alone[h] /\ pc[h] = "uw_dec" /\ pc'[h] # "uw_dec") => pc'[h] = "uw_now"
            /\ (pc[h] = "uw_dec" /\ pc'[h] = "uw_wait") => count' >= 1
            /\ (pc[h] = "uw_now" /\ pc'[h] # "uw_now")
                 => res'[h] = "unwrapped" /\ ret'[h] = val
            /\ (alone[h] /\ pc[h] = "tu_check" /\ pc'[h] # "tu_check")
                 => IF unwrapper = NoHandle
                    THEN pc'[h] = "tu_take"
                    ELSE pc'[h] = "idle" /\ res'[h] = "left"]_vars

\* C9 witness: unwrap on the only handle ever created has returned the
\* payload without a handoff.
C9_Witness ==
    \E h \in Handles :
        /\ alone[h]
        /\ res[h] = "unwrapped"
        /\ ready[h] = "none"
        /\ ack[h] = "none"
        /\ ret[h] = val0 + incs

\* C10: whenever an unwrap call has been woken, holds or has returned the
\* payload, no other handle keeps a reference, so no call of `with` is in
\* progress or can start, and the lock is free.
C10_UnwrapAlone ==
    \A h \in Handles :
        (pc[h] \in {"uw_now", "uw_ack", "uw_take"} \/ res[h] = "unwrapped")
            => /\ Counted = {}
               /\ lock = NoHandle
               /\ count = 0

\* C10 witness: the unwrapper holds the payload after a handoff, the last
\* dropper is still waiting for the answer, and `with` had been used before.
C10_Witness ==
    \E h, g \in Handles :
        /\ pc[h] = "uw_take"
        /\ pc[g] = "dr_recv"
        /\ peer[g] = h
        /\ incs >= 1

\* Handle g is still held: its decrement has not been performed.
Held(g) == g \in Counted

\* C11: an accepted unwrap on h while another handle g is still held and not
\* dropped never receives the payload: its decrement leads to the wait, no
\* ready message arrives, the wait is left only by a kill, the call then ends
\* by failure without a payload and leaves the box allocated with the payload
\* in it; the drop of g that follows takes the pair from the slot and, under
\* fair scheduling, destroys the payload, which is then destroyed exactly once.
C11_SelfDeadlock ==
    /\ [](\A h, g \in Handles :
            (h # g /\ Held(g)) =>
                /\ pc[h] \notin {"uw_now", "uw_ack", "uw_take"}
                /\ res[h] # "unwrapped"
                /\ pc[h] = "uw_wait" => (ready[h] = "none" /\ ret[h] = -1)
                /\ res[h] = "killed" =>
                       /\ ret[h] = -1
                       /\ data = "Some"
                       /\ box = "alloc"
                       /\ destroyedBy = {}
                       /\ unwrapper = h)
    /\ [][\A h, g \in Handles :
            (h # g /\ Held(g) /\ Held(g)') =>
                /\ (pc[h] = "uw_dec" /\ pc'[h] # "uw_dec") => pc'[h] = "uw_wait"
                /\ (pc[h] = "uw_wait" /\ pc'[h] # "uw_wait")
                     => (kill[h] /\ pc'[h] = "uw_fin")
                /\ (pc[h] = "uw_fin" /\ pc'[h] # "uw_fin")
                     => (pc'[h] = "done" /\ res'[h] = "killed" /\ ack'[h] = "false")]_vars
    /\ (\E h, g \in Handles :
            h # g /\ res[h] = "killed" /\ pc[g] = "dr_slot" /\ unwrapper = h)
          ~> (\E h, g \in Handles :
                /\ h # g /\ res[h] = "killed" /\ peer[g] = h
                /\ pc[g] = "done" /\ destroyedBy = {g} /\ box = "freed"
                /\ Extractors = {} /\ fault = "none")

\* C11 witness: the unwrap was cancelled in its wait and has ended by failure
\* while the second handle, never dropped so far, is still held.
C11_Witness ==
    \E h, g \in Handles :
        /\ h # g
        /\ res[h] = "killed"
        /\ pc[g] = "idle"
        /\ count = 1
        /\ unwrapper = h
        /\ ready[h] = "none"

\* C12: the lock is held only by a call of `with` that is between lock and
\* unlock; a call leaves that section only through the unlock, which frees
\* the lock, whether the closure returned, aborted or the call failed with
\* Poisoned; a call that is over does not hold the lock; and under fair
\* scheduling every holder releases the lock.
C12_LockReleased ==
    /\ [](\A h \in Handles :
            /\ lock = h => pc[h] \in CriticalPcs
            /\ (pc[h] = "idle" /\ res[h] \in {"ok", "aborted", "poisoned"}) => lock # h
            /\ (pc[h] = "w_unlock") => (lock = h /\ res[h] \in {"ok", "aborted", "poisoned"}))
    /\ [][\A h \in Handles :
            /\ (pc[h] \in CriticalPcs /\ pc'[h] \notin CriticalPcs)
                 => (pc[h] = "w_unlock" /\ lock' = NoHandle /\ pc'[h] = "idle")
            /\ (pc[h] \in CriticalPcs /\ pc[h] # "w_unlock" /\ res'[h] # "none")
                 => pc'[h] = "w_unlock"]_vars
    /\ (lock # NoHandle) ~> (lock = NoHandle)

\* C12 witness: after a call whose closure aborted is over, a later call on
\* another handle has acquired the lock.
C12_Witness ==
    \E h, g \in Handles :
        /\ h # g
        /\ res[h] = "aborted"
        /\ pc[h] = "idle"
        /\ lock = g
        /\ pc[g] = "w_check"

\* C13: unwrap does not look at the failed flag: on a poisoned cell the call
\* is accepted when the slot is empty, its decrement leads to the immediate
\* take or to the wait as on a healthy cell, the take ends as on a healthy
\* cell (it returns the payload as the closures left it, unless the finally
\* block finds the task failing), no step of unwrap changes the flag, and
\* only a call of `with` ever fails with Poisoned.
C13_UnwrapIgnoresPoison ==
    /\ [](\A h \in Handles :
            /\ res[h] = "poisoned" => pc[h] \in {"w_unlock", "idle"}
            /\ res[h] = "unwrapped" => ret[h] = val)
    /\ [][\A h \in Handles :
            /\ (pc[h] # "dr_dec" /\ pc'[h] = "dr_dec")
                 => (pc[h] = "uw_fill" /\ unwrapper # NoHandle)
            /\ (pc[h] \in UnwrapPcs /\ pc'[h] # pc[h])
                 => (failed' = failed /\ val' = val /\ res'[h] # "poisoned")
            /\ (failed /\ pc[h] = "uw_fill" /\ pc'[h] # "uw_fill")
                 => IF unwrapper = NoHandle
                    THEN pc'[h] = "uw_dec" /\ unwrapper' = h
                    ELSE pc'[h] = "dr_dec" /\ res'[h] = "conflict"
            /\ (failed /\ pc[h] = "uw_dec" /\ pc'[h] # "uw_dec")
                 => pc'[h] = (IF count = 1 THEN "uw_now" ELSE "uw_wait")
            /\ (failed /\ pc[h] = "uw_wait" /\ pc'[h] # "uw_wait")
                 => \/ ready[h] = "sent" /\ pc'[h] = "uw_ack"
                    \/ kill[h] /\ pc'[h] = "uw_fin"
            /\ (failed /\ pc[h] = "uw_now" /\ pc'[h] # pc[h])
                 => (res'[h] = "unwrapped" /\ ret'[h] = val)
            /\ (failed /\ pc[h] = "uw_take" /\ pc'[h] # pc[h])
                 => IF TaskFailing(h)
                    THEN res'[h] = "failed" /\ ret'[h] = -1
                    ELSE res'[h] = "unwrapped" /\ ret'[h] = val]_vars

\* C13 witness: on a cell poisoned by an aborted closure, unwrap has waited
\* for the last drop and returned the payload.
C13_Witness ==
    \E h, g \in Handles :
        /\ failed
        /\ everAborted
        /\ res[h] = "unwrapped"
        /\ ret[h] = val
        /\ ready[h] = "taken"
        /\ peer[g] = h

\* C14: the steps of a try_unwrap that gives the handle back change neither
\* the count, nor the slot and its channels, nor the payload, the flag, the
\* lock or the box; the handle given back is live again: it still holds its
\* reference to the allocated box with the payload in it, and clone, with,
\* try_unwrap, unwrap and drop can be called on it.
C14_TryUnwrapFrame ==
    /\ [](\A h \in Handles :
            (res[h] = "left") =>
                /\ pc[h] = "idle"
                /\ h \in Counted
                /\ count >= 1
                /\ box = "alloc"
                /\ data = "Some"
                /\ fault = "none"
                /\ ret[h] = -1
                /\ ENABLED StartUnwrap(h)
                /\ ENABLED TryLoad(h)
                /\ ENABLED DropDec(h)
                /\ (\E u \in Handles : pc[u] = "unused") => ENABLED Clone(h)
                /\ ENABLED WithGet(h))
    /\ [][\A h \in Handles :
            (\/ pc[h] = "idle" /\ pc'[h] = "tu_check"
             \/ pc[h] = "tu_check" /\ pc'[h] = "idle")
                => /\ UNCHANGED <<count, unwrapper, ready, ack, data, box, destroyedBy>>
                   /\ UNCHANGED <<val, failed, lock>>
                   /\ \A g \in Handles \ {h} : pc'[g] = pc[g]
                   /\ pc'[h] = "idle" => res'[h] = "left"]_vars

\* C14 witness: try_unwrap on the last counted handle has given the handle
\* back because the slot holds the pair of a blocked unwrapper.
C14_Witness ==
    \E g, h \in Handles :
        /\ g # h
        /\ res[g] = "left"
        /\ pc[g] = "idle"
        /\ count = 1
        /\ unwrapper = h
        /\ pc[h] = "uw_wait"

\* C15: while the box is allocated the count equals the number of handles
\* that have not yet performed their decrement, it is never negative, and no
\* such handle is left once the box is freed (a successful try_unwrap frees
\* the box without a decrement); the count changes only by a clone, which adds exactly 1 as the
\* new handle appears, and by the decrement of an ordinary drop, of an
\* accepted unwrap or of the drop that unwinds a rejected unwrap, each of
\* which subtracts exactly 1.
C15_RefcountInvariant ==
    /\ [](/\ count >= 0
          /\ box = "alloc" => count = Cardinality(Counted)
          /\ box = "freed" => Counted = {})
    /\ [][\/ /\ count' = count
             /\ Counted' = Counted \/ (box = "alloc" /\ box' = "freed")
          \/ /\ count' = count + 1
             /\ \E g \in Handles : /\ pc[g] = "unused"
                                    /\ pc'[g] = "idle"
                                    /\ Counted' = Counted \cup {g}
          \/ /\ count' = count - 1
             /\ \E h \in Handles :
                   /\ Counted' = Counted \ {h}
                   /\ h \in Counted
                   /\ \/ pc[h] = "idle" /\ pc'[h] \in {"dr_slot", "done"}
                      \/ pc[h] = "uw_dec" /\ pc'[h] \in {"uw_now", "uw_wait"}
                      \/ /\ pc[h] = "dr_dec"
                         /\ res[h] = "conflict"
                         /\ pc'[h] \in {"dr_slot", "done"}]_vars

\* C15 witness: after a clone, the decrement of an accepted unwrap and the
\* decrement of the drop that unwinds a rejected unwrap, the count is zero
\* and the box is still allocated.
C15_Witness ==
    \E h, g \in Handles :
        /\ pc[h] = "uw_wait"
        /\ res[g] = "conflict"
        /\ pc[g] = "dr_slot"
        /\ count = 0
        /\ box = "alloc"

\* C16: the failed flag is true exactly when a closure has aborted or the
\* holder of the lock is between the pre-mark and its reset; a call that
\* tests the flag under the lock sees it true only after an abort, so the
\* pre-mark of a running closure is never seen by another call; a call fails
\* with Poisoned only after an abort; and the step that ends a closure which
\* returned normally leaves the flag false.
C16_PoisonNoFalsePositive ==
    /\ [](/\ failed <=> (everAborted \/
                            \E h \in Handles : pc[h] \in {"w_read", "w_write", "w_clear"})
          /\ \A h \in Handles :
                /\ (pc[h] = "w_check" /\ failed) => everAborted
                /\ (pc[h] \in {"w_read", "w_write", "w_clear"} /\ ~everAborted)
                     => \A g \in Handles \ {h} : pc[g] \notin CriticalPcs
                /\ res[h] = "poisoned" => everAborted
                /\ (res[h] = "ok" /\ pc[h] = "w_unlock") => ~failed)
    /\ [][\A h \in Handles :
            /\ (pc[h] = "w_clear" /\ pc'[h] # "w_clear")
                 => (~failed' /\ res'[h] = "ok")
            /\ (pc[h] = "w_check" /\ pc'[h] # "w_check" /\ ~everAborted)
                 => pc'[h] = "w_set"
            /\ (~everAborted /\ everAborted')
                 => \E g \in Handles : pc[g] \in {"w_read", "w_write"} /\ res'[g] = "aborted"]_vars

\* C16 witness: after a closure returned normally on one handle, a later call
\* on another handle has tested the flag under the lock and found it false.
C16_Witness ==
    \E h, g \in Handles :
        /\ h # g
        /\ res[h] = "ok"
        /\ pc[h] = "idle"
        /\ incs = 1
        /\ ~everAborted
        /\ pc[g] = "w_set"
        /\ lock = g
        /\ ~failed

\* C17: a drop whose decrement takes the count from 1 to 0 goes on to look
\* at the slot and any other decrement ends the drop; on an empty slot the
\* dropper frees the box and destroys the payload in it; on an occupied slot
\* it empties the slot, keeps the pair, sends ready on it, waits until an
\* answer is there, and then frees the box if the answer is false and leaves
\* box and payload alone if it is true; so a dropper that took a pair has
\* destroyed the payload if and only if the answer was false.
C17_LastDropHandoff ==
    /\ [](\A h \in Handles :
            /\ (pc[h] = "done" /\ peer[h] # NoHandle)
                 => /\ ack[peer[h]] # "none"
                    /\ h \in destroyedBy <=> ack[peer[h]] = "false"
            /\ pc[h] \in {"dr_slot", "dr_send", "dr_recv", "dr_glue"} => count = 0
            /\ pc[h] \in {"dr_send", "dr_recv"} => peer[h] # NoHandle
            /\ (pc[h] = "dr_send" \/ (pc[h] = "dr_recv" /\ ack[peer[h]] # "true"))
                 => (box = "alloc" /\ data = "Some")
            /\ pc[h] = "dr_glue" => (box = "alloc" /\ data = "Some")
            /\ (pc[h] = "dr_glue" /\ peer[h] # NoHandle) => ack[peer[h]] = "false")
    /\ [][\A h \in Handles :
            /\ (pc[h] \in {"idle", "dr_dec"} /\ pc'[h] \in {"dr_slot", "done"})
                 => pc'[h] = (IF count = 1 THEN "dr_slot" ELSE "done")
            /\ (pc[h] = "dr_slot" /\ pc'[h] # "dr_slot")
                 => /\ unwrapper' = NoHandle
                    /\ peer'[h] = unwrapper
                    /\ pc'[h] = (IF unwrapper = NoHandle THEN "dr_glue" ELSE "dr_send")
                    /\ UNCHANGED <<data, box, destroyedBy>>
            /\ (pc[h] = "dr_send" /\ pc'[h] # "dr_send")
                 => /\ ready'[peer[h]] = "sent"
                    /\ pc'[h] = "dr_recv"
                    /\ UNCHANGED <<data, box, destroyedBy>>
            /\ (pc[h] = "dr_recv" /\ pc'[h] # "dr_recv")
                 => /\ ack[peer[h]] # "none"
                    /\ pc'[h] = (IF ack[peer[h]] = "false" THEN "dr_glue" ELSE "done")
                    /\ UNCHANGED <<data, box, destroyedBy>>
            /\ (pc[h] = "dr_glue" /\ pc'[h] # "dr_glue")
                 => /\ pc'[h] = "done"
                    /\ box' = "freed"
                    /\ destroyedBy' = {h}]_vars

\* C17 witness: the last dropper took the pair, sent ready, received the
\* answer true and ended, leaving the allocated box and the payload to the
\* unwrapper that is about to take it.
C17_Witness ==
    \E h, g \in Handles :
        /\ pc[h] = "done"
        /\ peer[h] = g
        /\ ack[g] = "true"
        /\ pc[g] = "uw_take"
        /\ box = "alloc"
        /\ data = "Some"
        /\ destroyedBy = {}

\* C18: the answer channel of an installed pair is written exactly once, by
\* its installer: true after it received ready, or false in the finally
\* block of a cancelled wait, whether or not ready was sent by then; while a
\* dropper waits for an answer that is not there yet, the installer is still
\* on its way to send it; at most one dropper waits; and under fair
\* scheduling the dropper that waits for the answer gets it and ends its drop.
C18_DropperWaitEnds ==
    /\ [](\A h \in Handles :
            /\ (pc[h] = "dr_recv" /\ ack[peer[h]] = "none")
                 => pc[peer[h]] \in {"uw_wait", "uw_ack", "uw_fin"}
            /\ pc[h] \in {"dr_send", "dr_recv"}
                 => \A g \in Handles \ {h} : pc[g] \notin {"dr_send", "dr_recv"}
            /\ ack[h] = "true" => (ready[h] = "taken" /\ pc[h] \in {"uw_take", "done"})
            /\ ack[h] = "false" => (ready[h] # "taken" /\ res[h] = "killed"))
    /\ [][\A g \in Handles :
            ack'[g] # ack[g]
                => /\ ack[g] = "none"
                   /\ \/ ack'[g] = "true" /\ pc[g] = "uw_ack" /\ ready[g] = "taken"
                      \/ ack'[g] = "false" /\ pc[g] = "uw_fin"]_vars
    /\ (\E h \in Handles : pc[h] = "dr_recv")
          ~> (\E h \in Handles : pc[h] = "done" /\ peer[h] # NoHandle)

\* C18 witness: the dropper's wait has ended with the answer false of an
\* unwrapper cancelled in its wait, which never took the ready message.
C18_Witness ==
    \E h, g \in Handles :
        /\ pc[h] = "dr_glue"
        /\ peer[h] = g
        /\ ack[g] = "false"
        /\ ready[g] = "sent"
        /\ res[g] = "killed"

\* The positions a step of unwrap or drop leads to when no kill is pending.
NormalSucc(p) ==
    CASE p = "uw_fill" -> {"uw_dec", "dr_dec"}
      [] p = "uw_dec" -> {"uw_now", "uw_wait"}
      [] p = "uw_now" -> {"done"}
      [] p = "uw_ack" -> {"uw_take"}
      [] p = "uw_take" -> {"done"}
      [] p = "dr_dec" -> {"dr_slot", "done"}
      [] p = "dr_slot" -> {"dr_send", "dr_glue"}
      [] p = "dr_send" -> {"dr_recv"}
      [] p = "dr_recv" -> {"dr_glue", "done"}
      [] p = "dr_glue" -> {"done"}
      [] OTHER -> {}

\* C19: the failure path of unwrap is entered only from the wait and only
\* with a kill pending; a kill pending at any other step of unwrap or at any
\* step of drop leaves the step what it is without the kill: it leads to the
\* same positions, does not give the result of a cancelled call, ends the
\* take as it ends without the kill and, at the dropper's wait, still needs
\* the answer; and the failure path, once entered, ends the call, so that a
\* call observes at most one kill.
C19_KillOnlyInWait ==
    /\ [](\A h \in Handles :
            /\ pc[h] = "uw_fin" => (kill[h] /\ ready[h] # "taken" /\ ack[h] = "none")
            /\ res[h] = "killed" => (pc[h] = "done" /\ ready[h] # "taken"))
    /\ [][\A h \in Handles :
            /\ (pc[h] # "uw_fin" /\ pc'[h] = "uw_fin")
                 => (pc[h] = "uw_wait" /\ kill[h])
            /\ (pc[h] = "uw_fin" /\ pc'[h] # "uw_fin")
                 => (pc'[h] = "done" /\ res'[h] = "killed")
            /\ (res[h] # "killed" /\ res'[h] = "killed") => pc[h] = "uw_fin"
            /\ (kill[h] /\ pc[h] \in InProtocol \ {"uw_wait"} /\ pc'[h] # pc[h])
                 => /\ pc'[h] \in NormalSucc(pc[h])
                    /\ res'[h] # "killed"
                    /\ res'[h] = "failed" => (pc[h] = "uw_take" /\ TaskFailing(h))
                    /\ pc[h] = "dr_recv" => ack[peer[h]] # "none"
                    /\ pc[h] = "uw_ack" => ack'[h] = "true"
                    /\ (pc[h] = "uw_now" \/ (pc[h] = "uw_take" /\ ~TaskFailing(h)))
                         => (res'[h] = "unwrapped" /\ ret'[h] = val)]_vars

\* C19 witness: kills are pending for the unwrapper that has sent the answer
\* true and for the dropper that waits for it, and both go on.
C19_Witness ==
    \E h, g \in Handles :
        /\ pc[h] = "uw_take"
        /\ kill[h]
        /\ ack[h] = "true"
        /\ pc[g] = "dr_recv"
        /\ kill[g]
        /\ peer[g] = h

\* The handles whose unwrap call put its pair in the slot.
Installers ==
    {h \in Handles : \/ pc[h] \in {"uw_dec", "uw_now", "uw_wait", "uw_ack",
                                   "uw_take", "uw_fin"}
                     \/ pc[h] = "done" /\ res[h] \in {"unwrapped", "killed", "failed"}}

\* C20: at most one unwrap call ever puts its pair in the slot; the slot is
\* filled only by the install step of an unwrap that finds it empty and is
\* emptied only by the dropper whose decrement took the count to zero; once
\* a pair was installed every unwrap that reaches its install step finds the
\* slot occupied, and an unwrap that finds it occupied fails with the
\* conflict error and leaves the slot as it is.
C20_InstalledOnce ==
    /\ [](/\ Cardinality(Installers) <= 1
          /\ unwrapper # NoHandle => Installers = {unwrapper}
          /\ \A h \in Handles :
                /\ (pc[h] = "uw_fill" /\ Installers # {}) => unwrapper # NoHandle
                /\ res[h] = "conflict" => (Installers # {} /\ h \notin Installers))
    /\ [][/\ unwrapper' # unwrapper
             => \/ /\ unwrapper = NoHandle
                   /\ pc[unwrapper'] = "uw_fill"
                   /\ pc'[unwrapper'] = "uw_dec"
                   /\ Installers = {}
                \/ /\ unwrapper' = NoHandle
                   /\ count = 0
                   /\ \E g \in Handles : pc[g] = "dr_slot" /\ peer'[g] = unwrapper
          /\ \A h \in Handles :
                (pc[h] = "uw_fill" /\ pc'[h] # "uw_fill" /\ unwrapper # NoHandle)
                    => /\ res'[h] = "conflict"
                       /\ pc'[h] = "dr_dec"
                       /\ UNCHANGED <<unwrapper, ready, ack>>]_vars

\* C20 witness: the pair of a cancelled unwrap is still in the slot and a
\* later unwrap on the other handle has been rejected with the conflict error.
C20_Witness ==
    \E h, g \in Handles :
        /\ res[h] = "killed"
        /\ unwrapper = h
        /\ res[g] = "conflict"
        /\ pc[g] = "dr_dec"
        /\ count = 1

\* C21 as stated: the check of try_unwrap leads to the take if and only if,
\* when the check is made, the count is 1 and the slot is empty.
C21_AsStated ==
    [][\A h \in Handles :
        (pc[h] = "tu_check" /\ pc'[h] # "tu_check")
            => (pc'[h] = "tu_take" <=> (count = 1 /\ unwrapper = NoHandle))]_vars

\* C21 amended: the check of try_unwrap leads to the take if and only if the
\* count it loaded is 1 and the slot is empty when the check is made; a call
\* that loaded 1 holds the only reference, so count and slot do not change
\* between its two loads; a call that loaded 2 or more gives the handle back
\* even when the count has become 1 by the time of the check; and a call
\* that takes or has returned the payload does so while no other handle
\* keeps a reference and no unwrap is in progress or waiting.
C21_TryUnwrapCheck ==
    /\ [](\A h \in Handles :
            /\ (pc[h] = "tu_check" /\ tc[h] = 1)
                 => (count = 1 /\ Counted = {h})
            /\ pc[h] = "tu_check" => tc[h] >= 1
            /\ (pc[h] = "tu_take" \/ res[h] = "tried")
                 => /\ Counted \subseteq {h}
                    /\ unwrapper = NoHandle
                    /\ \A g \in Handles \ {h} :
                          pc[g] \notin UnwrapPcs \cup DropPcs \cup {"tu_check", "tu_take"})
    /\ [][\A h \in Handles :
            /\ (pc[h] = "tu_check" /\ pc'[h] # "tu_check")
                 => /\ pc'[h] = "tu_take" <=> (tc[h] = 1 /\ unwrapper = NoHandle)
                    /\ pc'[h] = "tu_take" => (count = 1 /\ unwrapper = NoHandle)
                    /\ pc'[h] # "tu_take" => (pc'[h] = "idle" /\ res'[h] = "left")
            /\ (pc[h] = "tu_check" /\ tc[h] = 1 /\ pc'[h] = "tu_check")
                 => UNCHANGED <<count, unwrapper>>
            /\ (pc[h] = "idle" /\ pc'[h] = "tu_check") => tc'[h] = count]_vars

\* C21 witness: try_unwrap loaded the count 2, the sibling was dropped, and
\* the check is about to be made with the count at 1 and the slot empty.
C21_Witness ==
    \E h \in Handles :
        /\ pc[h] = "tu_check"
        /\ tc[h] = 2
        /\ count = 1
        /\ unwrapper = NoHandle
        /\ Only(h)

\* C22: a drop whose decrement finds an old count above 1 ends with that
\* decrement: the count goes down by 1, the slot and its channels, the
\* payload, the box, the failed flag and the lock are unchanged, no other
\* handle moves, and the drop is over without a wait.
C22_NonLastDropFrame ==
    [][\A h \in Handles :
            (pc[h] \in {"idle", "dr_dec"} /\ pc'[h] \in {"dr_slot", "done"} /\ count > 1)
                => /\ pc'[h] = "done"
                   /\ count' = count - 1
                   /\ UNCHANGED <<unwrapper, ready, ack, data, box, destroyedBy>>
                   /\ UNCHANGED <<val, failed, lock>>
                   /\ peer'[h] = NoHandle
                   /\ pc[h] = "idle" => res'[h] = "dropped"
                   /\ \A g \in Handles \ {h} : pc'[g] = pc[g]]_vars

\* C22 witness: a handle was dropped while the sibling's unwrap had installed
\* its pair but not yet decremented: the count is 1, the pair is still in the
\* slot and the payload in the box.
C22_Witness ==
    \E h, g \in Handles :
        /\ pc[h] = "done"
        /\ res[h] = "dropped"
        /\ peer[h] = NoHandle
        /\ pc[g] = "uw_dec"
        /\ unwrapper = g
        /\ ready[g] = "none"
        /\ count = 1
        /\ data = "Some"

\* The handles whose unwrap took the payload out of the box and then failed
\* in its finally block.
FailedAfterTake == {h \in Handles : pc[h] = "done" /\ res[h] = "failed"}

\* The positions of a call of `with`.
WithPcs == {"w_lock"} \cup CriticalPcs

\* C23: no step of a call of `with`, whether it returns, aborts or fails with
\* Poisoned, changes the count, the slot, its channels, the payload option or
\* the box; once a closure has aborted, the count still equals the number of
\* handles that have not decremented, no assertion on the count fails and
\* no memory error occurs, the lock is free whenever no call of `with` is
\* between lock and unlock, clone, drop and try_unwrap take the same steps
\* as on a healthy cell, and when all handles are retired the payload has
\* left the box exactly once (taken by an unwrap or try_unwrap or destroyed
\* by the last drop) and the box, with the lock in it, is freed.
C23_WithFailuresHarmless ==
    /\ [](everAborted =>
            /\ box = "alloc" => count = Cardinality(Counted)
            /\ fault \in {"none", "take_empty_cell"}
            /\ NExtract + Cardinality(FailedAfterTake) <= 1
            /\ (\A h \in Handles : pc[h] \notin CriticalPcs) => lock = NoHandle
            /\ AllRetired => /\ NExtract + Cardinality(FailedAfterTake) = 1
                             /\ box = "freed"
                             /\ data = "None")
    /\ [][\A h \in Handles :
            /\ ((pc[h] \in WithPcs \/ pc'[h] \in WithPcs) /\ pc'[h] # pc[h])
                 => UNCHANGED arcVars
            /\ (everAborted /\ pc[h] = "idle" /\ pc'[h] = "tu_check") => tc'[h] = count
            /\ (everAborted /\ pc[h] = "tu_check" /\ pc'[h] # "tu_check")
                 => pc'[h] = (IF tc[h] = 1 /\ unwrapper = NoHandle
                              THEN "tu_take" ELSE "idle")
            /\ (everAborted /\ pc[h] = "tu_take" /\ pc'[h] # "tu_take")
                 => (res'[h] = "tried" /\ ret'[h] = val)
            /\ (everAborted /\ pc[h] = "idle" /\ pc'[h] \in {"dr_slot", "done"})
                 => (count' = count - 1 /\
                     pc'[h] = (IF count = 1 THEN "dr_slot" ELSE "done"))
            /\ (everAborted /\ pc[h] = "unused" /\ pc'[h] = "idle")
                 => count' = count + 1
            /\ (everAborted /\ pc[h] = "idle" /\ pc'[h] = "uw_fill")
                 => UNCHANGED arcVars]_vars

\* C23 witness: after a closure aborted, all handles are retired, the last
\* drop has destroyed the payload and freed the box, and the lock is free.
C23_Witness ==
    /\ everAborted
    /\ failed
    /\ AllRetired
    /\ Cardinality(destroyedBy) = 1
    /\ box = "freed"
    /\ lock = NoHandle
    /\ count = 0
    /\ \E h, g \in Handles : h # g /\ pc[h] = "done" /\ pc[g] = "done"

\* C24: in the state made by new, clone can be called on the handle, and the
\* state it leads to is the state made by new2 on the same payload: two
\* handles on one allocated box, count 2, slot empty, payload present, and
\* every other variable equal; the two constructions reach one and the same
\* state, so every sequence of operations that follows gives the same
\* results and states in both.
C24_New2IsNewClone ==
    /\ [](NewBox(1, val0) => ENABLED Clone(1))
    /\ [](NewBox(2, val0) =>
            /\ Counted = {1, 2}
            /\ count = 2
            /\ unwrapper = NoHandle
            /\ data = "Some"
            /\ box = "alloc")
    /\ [][(NewBox(1, val0) /\ pc'[1] = "idle" /\ pc'[2] # "unused") => NewBox(2, val0)']_vars

\* C24 witness: the state made by new2, which is also the state reached from
\* new by one clone.
C24_Witness ==
    /\ NewBox(2, val0)
    /\ count = 2
    /\ pc[1] = "idle"
    /\ pc[2] = "idle"

\* C25: when unwrap was called by a task that is already unkillable, a kill
\* request delivered before or during the wait does not end the wait: the
\* call never enters the failure path, the wait is left only with the ready
\* message of the last dropper, the answer is then true and the payload is
\* returned; under fair scheduling the call returns the payload once all
\* other handles have been dropped.
C25_UnkillableUnwrap ==
    /\ [](\A h \in Handles :
            masked[h] =>
                /\ pc[h] \in {"uw_fill", "uw_dec", "uw_now", "uw_wait", "uw_ack", "uw_take"}
                /\ res[h] = "none"
                /\ ack[h] # "false"
                /\ (pc[h] = "uw_wait" /\ kill[h]) => ~ENABLED UnwrapKilled(h)
                /\ (pc[h] = "uw_wait" /\ ready[h] = "none") => ~ENABLED UnwrapRecv(h))
    /\ [][\A h \in Handles :
            /\ (masked[h] /\ pc[h] = "uw_wait" /\ pc'[h] # "uw_wait")
                 => (ready[h] = "sent" /\ pc'[h] = "uw_ack" /\ count = 0)
            /\ (masked[h] /\ pc[h] \in {"uw_now", "uw_take"} /\ pc'[h] # pc[h])
                 => (res'[h] = "unwrapped" /\ ret'[h] = val)]_vars
    /\ (\E h \in Handles : masked[h] /\ pc[h] = "uw_wait" /\ kill[h] /\ OthersDropped(h))
          ~> (\E h \in Handles : res[h] = "unwrapped" /\ ret[h] = val0 + incs)

\* C25 witness: the unwrap of a task that is already unkillable and already
\* failing has left its wait with the ready message of the last dropper
\* while a kill request is pending, has answered true, and is about to run
\* the finally block that fails.
C25_Witness ==
    \E h, g \in Handles :
        /\ masked[h]
        /\ failing[h]
        /\ kill[h]
        /\ pc[h] = "uw_take"
        /\ ready[h] = "taken"
        /\ ack[h] = "true"
        /\ peer[g] = h

\* C26: after an unwrap was cancelled in its wait, its pair stays in the slot
\* until the dropper whose decrement took the count to zero takes it out;
\* no call ever takes or returns the payload; every later unwrap is rejected
\* with the conflict error and every later try_unwrap gives the handle back,
\* also on the only handle left with the count at 1; the last dropper takes
\* the pair, finds the answer false already there and destroys the payload.
C26_StickySlot ==
    /\ [](\A h \in Handles :
            res[h] = "killed" =>
                /\ Extractors = {}
                /\ ack[h] = "false"
                /\ \/ unwrapper = h
                   \/ /\ unwrapper = NoHandle
                      /\ count = 0
                      /\ \E g \in Handles : peer[g] = h
                /\ Counted # {} => (unwrapper = h /\ box = "alloc" /\ data = "Some")
                /\ \A g \in Handles :
                      /\ pc[g] \notin {"uw_dec", "uw_now", "uw_wait", "uw_ack",
                                        "uw_take", "uw_fin", "tu_take"}
                      /\ g \in destroyedBy => (peer[g] = h /\ pc[g] = "done"))
    /\ [][\A h, g \in Handles :
            res[h] = "killed" =>
                /\ (pc[g] = "uw_fill" /\ pc'[g] # "uw_fill")
                     => (pc'[g] = "dr_dec" /\ res'[g] = "conflict" /\ unwrapper' = h)
                /\ (pc[g] = "tu_check" /\ pc'[g] # "tu_check")
                     => (pc'[g] = "idle" /\ res'[g] = "left" /\ unwrapper' = h)
                /\ (pc[g] = "dr_slot" /\ pc'[g] # "dr_slot")
                     => (pc'[g] = "dr_send" /\ peer'[g] = h)
                /\ (pc[g] = "dr_recv" /\ pc'[g] # "dr_recv") => pc'[g] = "dr_glue"
                /\ (pc[g] = "dr_glue" /\ pc'[g] # "dr_glue") => destroyedBy' = {g}]_vars

\* C26 witness: after the cancelled unwrap, try_unwrap on the only handle
\* left has given the handle back with the count at 1 and the pair of the
\* cancelled call still in the slot.
C26_Witness ==
    \E h, g \in Handles :
        /\ res[h] = "killed"
        /\ unwrapper = h
        /\ res[g] = "left"
        /\ pc[g] = "idle"
        /\ Only(g)
        /\ count = 1

\* C27: an unwrap rejected with the conflict error goes on to the drop of its
\* handle and nowhere else; the rejection itself changes neither count nor
\* slot; the decrement of that drop subtracts exactly 1 and leaves the slot
\* in place; when it takes the count to zero the rejected caller finds the
\* pair in the slot, takes it, sends ready and waits for the answer; and
\* under fair scheduling the drop ends and the call of the installer ends
\* too: with the payload, by its cancellation or by the failure of its
\* finally block.
C27_RejectedUnwrapRetires ==
    /\ [](\A g \in Handles :
            res[g] = "conflict" =>
                /\ pc[g] \in DropPcs \cup {"done"}
                /\ pc[g] = "dr_dec" => (g \in Counted /\ count >= 1 /\ unwrapper # NoHandle)
                /\ pc[g] = "dr_slot" => (unwrapper # NoHandle /\ count = 0)
                /\ pc[g] \in {"dr_send", "dr_recv", "dr_glue"} => peer[g] # NoHandle
                /\ box = "alloc" => count = Cardinality(Counted))
    /\ [][\A g \in Handles :
            /\ (pc[g] = "uw_fill" /\ pc'[g] = "dr_dec")
                 => (res'[g] = "conflict" /\ UNCHANGED <<count, unwrapper, ready, ack>>)
            /\ (pc[g] = "dr_dec" /\ pc'[g] # "dr_dec")
                 => /\ count' = count - 1
                    /\ unwrapper' = unwrapper
                    /\ pc'[g] = (IF count = 1 THEN "dr_slot" ELSE "done")
            /\ (res[g] = "conflict" /\ pc[g] = "dr_slot" /\ pc'[g] # "dr_slot")
                 => (pc'[g] = "dr_send" /\ peer'[g] = unwrapper /\ unwrapper' = NoHandle)
            /\ (res[g] = "conflict" /\ pc[g] = "dr_send" /\ pc'[g] # "dr_send")
                 => (pc'[g] = "dr_recv" /\ ready'[peer[g]] = "sent")]_vars
    /\ (\E g \in Handles : res[g] = "conflict" /\ pc[g] = "dr_dec" /\ count = 1)
          ~> (\E g, h \in Handles :
                /\ res[g] = "conflict" /\ pc[g] = "done" /\ peer[g] = h
                /\ pc[h] = "done" /\ res[h] \in {"unwrapped", "killed", "failed"})

\* C27 witness: the rejected caller, whose decrement took the count to zero,
\* has sent ready and woken the unwrapper that was waiting.
C27_Witness ==
    \E g, h \in Handles :
        /\ res[g] = "conflict"
        /\ pc[g] = "dr_recv"
        /\ peer[g] = h
        /\ pc[h] = "uw_ack"
        /\ ready[h] = "taken"
        /\ count = 0

\* C28: no assertion of the protocol fails and no access to the box goes
\* wrong: while a handle is live the count is at least 1, the box is
\* allocated and the payload is in it, also while a sibling unwrapper is
\* blocked in its wait; every take of the payload finds it; the cell holding
\* the answer channel and the box is full when the do-block or the finally
\* block of a cancelled wait takes it, and empty in the finally block of a
\* wait that was not cancelled.  The only failure ever recorded is that of
\* the take at line 137, which asserts nothing and belongs to a call that
\* ended by failure.
C28_NoAssertFails ==
    /\ fault \in {"none", "take_empty_cell"}
    /\ fault = "take_empty_cell" => \E h \in Handles : res[h] = "failed"
    /\ \A h \in Handles :
          /\ h \in Counted => (count >= 1 /\ box = "alloc" /\ data = "Some")
          /\ pc[h] \in {"uw_now", "uw_take", "tu_take"} => (box = "alloc" /\ data = "Some")
          /\ pc[h] \in {"uw_wait", "uw_ack", "uw_fin"} => cell[h] = "full"
          /\ pc[h] = "uw_take" => cell[h] = "empty"
          /\ res[h] = "failed" => (fault = "take_empty_cell" /\ cell[h] = "empty")

\* C28 witness: a live handle is dereferenced inside `with` while the sibling
\* unwrapper, which has given up its count, is blocked in its wait.
C28_Witness ==
    \E h, g \in Handles :
        /\ pc[h] = "uw_wait"
        /\ unwrapper = h
        /\ pc[g] = "w_read"
        /\ lock = g
        /\ count = 1
        /\ fault = "none"

====
